---- MODULE Spec2Model ----
(***************************************************************************)
(* The device sign-out coordination of SessionManagerTab.tsx: the hook     *)
(* useSignOut (onSignOutOtherDevices) together with the component state it *)
(* shares with the tab (signingOutDeviceIds, selectedDeviceIds,            *)
(* delegatedAuthAccountUrl).                                               *)
(*                                                                         *)
(* JavaScript runs each handler to completion between two awaits, so every *)
(* action below is one such run: from the event that resumes the async     *)
(* function (a call, a dialog closing, the deletion API settling, the      *)
(* device refresh settling) up to the next await or the return.  The       *)
(* functional state updaters of lines 114 and 136-138 are applied in the   *)
(* order they were queued, which is the order of these runs.               *)
(***************************************************************************)
EXTENDS Integers, Sequences, FiniteSets, TLC

\* ---- bounds of the model ------------------------------------------------
NumDevices == 3      \* device identifiers are 1..NumDevices
MaxIds == 2          \* longest identifier list handed to one request
MaxRequests == 2     \* calls of onSignOutOtherDevices in one behaviour
MaxLogoutDialogs == 1  \* calls of onSignOutCurrentDevice in one behaviour

DeviceIds == 1..NumDevices
Requests == 1..MaxRequests

\* ---- values ---------------------------------------------------------------
Undefined == "undefined"
\* an undefined dehydratedDeviceId (device identifiers are numbers here)
NoDevice == 0
AccountUrl == "https://idp/account"
\* what a dialog's `finished` promise can deliver as its first element
DialogResults == {"true", "false", Undefined}
\* the boolean the deletion API hands to its completion callback
ApiResults == {"true", "false"}

\* `!!value` (lines 58, 68) and the truthiness tests of lines 98, 105, 116, 133
Truthy(v) == v \notin {"false", Undefined, ""}

Range(s) == {s[i] : i \in 1..Len(s)}

\* deviceIds.includes(deviceId), line 137
Includes(ids, d) == \E i \in 1..Len(ids) : ids[i] = d

\* the list names each device once, in the order of the device list
InListOrder(s) == \A i, j \in 1..Len(s) : i < j => s[i] < s[j]

\* the identifier lists a caller passes: the keys of otherDevices (line 279),
\* the selection, or one device
IdLists == {s \in UNION {[1..n -> DeviceIds] : n \in 0..MaxIds} : InListOrder(s)}

VARIABLES
    delegatedAuthAccountUrl,  \* value of the useAsyncMemo of lines 178-181
    oidcSettled,              \* whether that memo has resolved
    signingOutDeviceIds,      \* useState of line 80
    selectedDeviceIds,        \* useState of line 167
    pc,                       \* where each call of onSignOutOtherDevices stands
    deviceIds,                \* its argument
    closureUrl,               \* the delegatedAuthAccountUrl its closure holds
    success,                  \* its local `success` (line 112)
    deferredSuccess,          \* its defer<boolean>() slot (line 124)
    \* observations of what each call did to its collaborators
    confirmCalls, confirmResult,
    deleteCalls, deleteArgs,
    oidcDialogCalls, oidcDialogArgs, oidcDialogResult,
    resolvedCalls,
    markCount, unmarkCount, markedAtRemote,
    logs, threw,
    \* what useOwnDevices() hands to the tab (lines 152-164)
    devices,                  \* device identifier -> isVerified
    currentDeviceId,
    dehydratedDeviceId,
    logoutDialogCalls         \* LogoutDialogs opened by onSignOutCurrentDevice

reqVars == <<pc, deviceIds, closureUrl, success, deferredSuccess>>
obsVars == <<confirmCalls, confirmResult, deleteCalls, deleteArgs,
             oidcDialogCalls, oidcDialogArgs, oidcDialogResult,
             resolvedCalls, markCount, unmarkCount, markedAtRemote, logs, threw>>
deviceVars == <<devices, currentDeviceId, dehydratedDeviceId>>
tabVars == <<deviceVars, logoutDialogCalls>>
vars == <<delegatedAuthAccountUrl, oidcSettled, signingOutDeviceIds,
          selectedDeviceIds, reqVars, obsVars, tabVars>>

\* the state of the hooks after the first render, whatever the device list
InitHooks ==
    /\ delegatedAuthAccountUrl = Undefined
    /\ oidcSettled = FALSE
    /\ signingOutDeviceIds = <<>>
    /\ selectedDeviceIds = <<>>
    /\ pc = [r \in Requests |-> "idle"]
    /\ deviceIds = [r \in Requests |-> <<>>]
    /\ closureUrl = [r \in Requests |-> Undefined]
    /\ success = [r \in Requests |-> FALSE]
    /\ deferredSuccess = [r \in Requests |-> "none"]
    /\ confirmCalls = [r \in Requests |-> 0]
    /\ confirmResult = [r \in Requests |-> "none"]
    /\ deleteCalls = [r \in Requests |-> 0]
    /\ deleteArgs = [r \in Requests |-> <<>>]
    /\ oidcDialogCalls = [r \in Requests |-> 0]
    /\ oidcDialogArgs = [r \in Requests |-> <<>>]
    /\ oidcDialogResult = [r \in Requests |-> "none"]
    /\ resolvedCalls = [r \in Requests |-> 0]
    /\ markCount = [r \in Requests |-> 0]
    /\ unmarkCount = [r \in Requests |-> 0]
    /\ markedAtRemote = [r \in Requests |-> FALSE]
    /\ logs = [r \in Requests |-> <<>>]
    /\ threw = [r \in Requests |-> FALSE]
    /\ logoutDialogCalls = 0

\* the device lists useOwnDevices() can return: any devices, each verified or
\* not, any current device, a dehydrated device or none
DeviceLists == UNION {[present -> BOOLEAN] : present \in SUBSET DeviceIds}

\* every device listed and unverified, the first one current, none dehydrated
Init ==
    /\ InitHooks
    /\ devices = [d \in DeviceIds |-> FALSE]
    /\ currentDeviceId = 1
    /\ dehydratedDeviceId = NoDevice

\* ---- the state updaters ----------------------------------------------------
\* (signingOutDeviceIds) => [...signingOutDeviceIds, ...deviceIds], line 114
AddSigningOut(current, ids) == current \o ids

\* the cleanup overwriting the list with [] instead of filtering it
RemoveSigningOut_Clear(current, ids) == <<>>

\* the cleanup filtering with deviceIds.includes(deviceId), the `!` forgotten
RemoveSigningOut_Inverted(current, ids) == SelectSeq(current, LAMBDA d : Includes(ids, d))

\* signingOutDeviceIds.filter((deviceId) => !deviceIds.includes(deviceId)), 136-138
RemoveSigningOut(current, ids) == SelectSeq(current, LAMBDA d : ~Includes(ids, d))

\* confirmSignOut testing `confirmed !== false` instead of `!!confirmed`
confirmSignOut_NotFalse(v) == v # "false"

\* confirmSignOut resolves to !!confirmed, lines 56-58
confirmSignOut(v) == Truthy(v)

\* confirmDelegatedAuthSignOut testing `confirmed !== false`
confirmDelegatedAuthSignOut_NotFalse(v) == v # "false"

\* confirmDelegatedAuthSignOut resolves to !!confirmed, lines 66-68
confirmDelegatedAuthSignOut(v) == Truthy(v)

\* all identifiers of ids are in the in-flight list
AllInFlight(current, ids) == Range(ids) \subseteq Range(current)

\* the guard of line 93 left out
IsEmptyRequest_Never(ids) == FALSE

\* the guard of line 93
IsEmptyRequest(ids) == Len(ids) = 0

\* the guard of line 98 testing for an empty list instead of a length other than 1
IsMultiOidcSignOut_Empty(url, ids) == Truthy(url) /\ Len(ids) = 0

\* the guard of line 98
IsMultiOidcSignOut(url, ids) == Truthy(url) /\ Len(ids) # 1

\* the yes/no confirmation asked whatever the delegated-auth URL
NeedsConfirm_Always(url) == TRUE

\* whether the yes/no confirmation is asked, line 105
NeedsConfirm(url) == ~Truthy(url)

\* which backend a marked request uses, line 116
UsesDelegatedAuth(url) == Truthy(url)

\* ---- onSignOutOtherDevices, run by run ------------------------------------
\* lines 112-125 with the backend invoked before line 114 marks the identifiers
Start_RemoteFirst(r, ids, url) ==
    /\ markedAtRemote' = [markedAtRemote EXCEPT ![r] = AllInFlight(signingOutDeviceIds, ids)]
    /\ signingOutDeviceIds' = AddSigningOut(signingOutDeviceIds, ids)
    /\ markCount' = [markCount EXCEPT ![r] = @ + 1]
    /\ success' = [success EXCEPT ![r] = FALSE]
    /\ IF UsesDelegatedAuth(url)
       THEN /\ oidcDialogCalls' = [oidcDialogCalls EXCEPT ![r] = @ + 1]
            /\ oidcDialogArgs' = [oidcDialogArgs EXCEPT ![r] = <<url, ids[1]>>]
            /\ pc' = [pc EXCEPT ![r] = "oidcDialog"]
            /\ UNCHANGED <<deferredSuccess, deleteCalls, deleteArgs>>
       ELSE /\ deferredSuccess' = [deferredSuccess EXCEPT ![r] = "pending"]
            /\ deleteCalls' = [deleteCalls EXCEPT ![r] = @ + 1]
            /\ deleteArgs' = [deleteArgs EXCEPT ![r] = ids]
            /\ pc' = [pc EXCEPT ![r] = "deleting"]
            /\ UNCHANGED <<oidcDialogCalls, oidcDialogArgs>>

\* lines 112-125 with the backend invoked a second time for the same call
Start_Retry(r, ids, url) ==
    LET marked == AddSigningOut(signingOutDeviceIds, ids) IN
    /\ signingOutDeviceIds' = marked
    /\ markCount' = [markCount EXCEPT ![r] = @ + 1]
    /\ markedAtRemote' = [markedAtRemote EXCEPT ![r] = AllInFlight(marked, ids)]
    /\ success' = [success EXCEPT ![r] = FALSE]
    /\ IF UsesDelegatedAuth(url)
       THEN /\ oidcDialogCalls' = [oidcDialogCalls EXCEPT ![r] = @ + 2]
            /\ oidcDialogArgs' = [oidcDialogArgs EXCEPT ![r] = <<url, ids[1]>>]
            /\ pc' = [pc EXCEPT ![r] = "oidcDialog"]
            /\ UNCHANGED <<deferredSuccess, deleteCalls, deleteArgs>>
       ELSE /\ deferredSuccess' = [deferredSuccess EXCEPT ![r] = "pending"]
            /\ deleteCalls' = [deleteCalls EXCEPT ![r] = @ + 2]
            /\ deleteArgs' = [deleteArgs EXCEPT ![r] = ids]
            /\ pc' = [pc EXCEPT ![r] = "deleting"]
            /\ UNCHANGED <<oidcDialogCalls, oidcDialogArgs>>

\* lines 112-125: mark the identifiers, then open the OidcLogoutDialog for the
\* first identifier (delegated auth) or call the deletion API with all of them
Start(r, ids, url) ==
    LET marked == AddSigningOut(signingOutDeviceIds, ids) IN
    /\ signingOutDeviceIds' = marked
    /\ markCount' = [markCount EXCEPT ![r] = @ + 1]
    /\ markedAtRemote' = [markedAtRemote EXCEPT ![r] = AllInFlight(marked, ids)]
    /\ success' = [success EXCEPT ![r] = FALSE]
    /\ IF UsesDelegatedAuth(url)
       THEN /\ oidcDialogCalls' = [oidcDialogCalls EXCEPT ![r] = @ + 1]
            /\ oidcDialogArgs' = [oidcDialogArgs EXCEPT ![r] = <<url, ids[1]>>]
            /\ pc' = [pc EXCEPT ![r] = "oidcDialog"]
            /\ UNCHANGED <<deferredSuccess, deleteCalls, deleteArgs>>
       ELSE /\ deferredSuccess' = [deferredSuccess EXCEPT ![r] = "pending"]
            /\ deleteCalls' = [deleteCalls EXCEPT ![r] = @ + 1]
            /\ deleteArgs' = [deleteArgs EXCEPT ![r] = ids]
            /\ pc' = [pc EXCEPT ![r] = "deleting"]
            /\ UNCHANGED <<oidcDialogCalls, oidcDialogArgs>>

\* the finally block with the test of line 133 left out
Finally_AlwaysResolved(r, ok) ==
    /\ success' = [success EXCEPT ![r] = ok]
    /\ resolvedCalls' = [resolvedCalls EXCEPT ![r] = @ + 1]
    /\ pc' = [pc EXCEPT ![r] = "refreshing"]
    /\ UNCHANGED <<signingOutDeviceIds, unmarkCount>>

\* the finally block, lines 132-139, entered with the local `success` = ok:
\* either the resolution callback is called and awaited, or the cleanup runs
Finally(r, ok) ==
    /\ success' = [success EXCEPT ![r] = ok]
    /\ IF ok
       THEN /\ resolvedCalls' = [resolvedCalls EXCEPT ![r] = @ + 1]
            /\ pc' = [pc EXCEPT ![r] = "refreshing"]
            /\ UNCHANGED <<signingOutDeviceIds, unmarkCount>>
       ELSE /\ signingOutDeviceIds' = RemoveSigningOut(signingOutDeviceIds, deviceIds[r])
            /\ unmarkCount' = [unmarkCount EXCEPT ![r] = @ + 1]
            /\ pc' = [pc EXCEPT ![r] = "done"]
            /\ UNCHANGED resolvedCalls

\* a call of onSignOutOtherDevices(ids): lines 92-110 up to the first await
Call(r, ids) ==
    /\ pc[r] = "idle"
    /\ IF r = 1 THEN TRUE ELSE pc[r - 1] # "idle"
    /\ deviceIds' = [deviceIds EXCEPT ![r] = ids]
    /\ closureUrl' = [closureUrl EXCEPT ![r] = delegatedAuthAccountUrl]
    /\ LET url == delegatedAuthAccountUrl IN
       IF IsEmptyRequest(ids)
       THEN /\ pc' = [pc EXCEPT ![r] = "done"]
            /\ UNCHANGED <<signingOutDeviceIds, success, deferredSuccess, obsVars>>
       ELSE IF IsMultiOidcSignOut(url, ids)
       THEN /\ pc' = [pc EXCEPT ![r] = "done"]
            /\ logs' = [logs EXCEPT ![r] = Append(@, "warn")]
            /\ UNCHANGED <<signingOutDeviceIds, success, deferredSuccess,
                           confirmCalls, confirmResult, deleteCalls, deleteArgs,
                           oidcDialogCalls, oidcDialogArgs, oidcDialogResult,
                           resolvedCalls, markCount, unmarkCount, markedAtRemote, threw>>
       ELSE IF NeedsConfirm(url)
       THEN /\ pc' = [pc EXCEPT ![r] = "confirming"]
            /\ confirmCalls' = [confirmCalls EXCEPT ![r] = @ + 1]
            /\ UNCHANGED <<signingOutDeviceIds, success, deferredSuccess,
                           confirmResult, deleteCalls, deleteArgs,
                           oidcDialogCalls, oidcDialogArgs, oidcDialogResult,
                           resolvedCalls, markCount, unmarkCount, markedAtRemote,
                           logs, threw>>
       ELSE /\ Start(r, ids, url)
            /\ UNCHANGED <<confirmCalls, confirmResult, oidcDialogResult,
                           resolvedCalls, unmarkCount, logs, threw>>
    /\ UNCHANGED <<delegatedAuthAccountUrl, oidcSettled, selectedDeviceIds>>
    /\ UNCHANGED tabVars

\* the QuestionDialog closes with [v]: lines 56-58, 106-110, then 112-125
ConfirmFinished(r, v) ==
    /\ pc[r] = "confirming"
    /\ confirmResult' = [confirmResult EXCEPT ![r] = v]
    /\ IF ~confirmSignOut(v)
       THEN /\ pc' = [pc EXCEPT ![r] = "done"]
            /\ UNCHANGED <<signingOutDeviceIds, success, deferredSuccess,
                           deleteCalls, deleteArgs, oidcDialogCalls, oidcDialogArgs,
                           markCount, markedAtRemote>>
       ELSE Start(r, deviceIds[r], closureUrl[r])
    /\ UNCHANGED <<delegatedAuthAccountUrl, oidcSettled, selectedDeviceIds,
                   deviceIds, closureUrl, confirmCalls, oidcDialogResult,
                   resolvedCalls, unmarkCount, logs, threw>>
    /\ UNCHANGED tabVars

\* the OidcLogoutDialog closes with [v]: lines 66-68, 119, then the finally block
OidcDialogFinished(r, v) ==
    /\ pc[r] = "oidcDialog"
    /\ oidcDialogResult' = [oidcDialogResult EXCEPT ![r] = v]
    /\ Finally(r, confirmDelegatedAuthSignOut(v))
    /\ UNCHANGED <<delegatedAuthAccountUrl, oidcSettled, selectedDeviceIds,
                   deviceIds, closureUrl, deferredSuccess,
                   confirmCalls, confirmResult, deleteCalls, deleteArgs,
                   oidcDialogCalls, oidcDialogArgs, markCount, markedAtRemote,
                   logs, threw>>
    /\ UNCHANGED tabVars

\* confirmDelegatedAuthSignOut rejects: the inner catch of lines 120-122 logs,
\* `success` keeps its false, then the finally block
OidcDialogThrow(r) ==
    /\ pc[r] = "oidcDialog"
    /\ oidcDialogResult' = [oidcDialogResult EXCEPT ![r] = "throw"]
    /\ logs' = [logs EXCEPT ![r] = Append(@, "error")]
    /\ Finally(r, success[r])
    /\ UNCHANGED <<delegatedAuthAccountUrl, oidcSettled, selectedDeviceIds,
                   deviceIds, closureUrl, deferredSuccess,
                   confirmCalls, confirmResult, deleteCalls, deleteArgs,
                   oidcDialogCalls, oidcDialogArgs, markCount, markedAtRemote, threw>>
    /\ UNCHANGED tabVars

\* the deletion API invokes the completion callback of lines 125-127 with b.
\* It does so exactly once, before or after its own promise resolves.
DeleteDevicesCallback(r, b) ==
    /\ pc[r] \in {"deleting", "awaitDeferred"}
    /\ deferredSuccess[r] = "pending"
    /\ deferredSuccess' = [deferredSuccess EXCEPT ![r] = b]
    /\ IF pc[r] = "awaitDeferred"
       THEN Finally(r, Truthy(b))
       ELSE UNCHANGED <<pc, success, signingOutDeviceIds, resolvedCalls, unmarkCount>>
    /\ UNCHANGED <<delegatedAuthAccountUrl, oidcSettled, selectedDeviceIds,
                   deviceIds, closureUrl,
                   confirmCalls, confirmResult, deleteCalls, deleteArgs,
                   oidcDialogCalls, oidcDialogArgs, oidcDialogResult,
                   markCount, markedAtRemote, logs, threw>>
    /\ UNCHANGED tabVars

\* line 128 not awaiting the deferred slot: the call goes on to the finally
\* block as soon as the promise of the deletion API resolves
DeleteDevicesReturn_NoAwait(r) ==
    /\ pc[r] = "deleting"
    /\ Finally(r, deferredSuccess[r] = "true")
    /\ UNCHANGED <<delegatedAuthAccountUrl, oidcSettled, selectedDeviceIds,
                   deviceIds, closureUrl, deferredSuccess,
                   confirmCalls, confirmResult, deleteCalls, deleteArgs,
                   oidcDialogCalls, oidcDialogArgs, oidcDialogResult,
                   markCount, markedAtRemote, logs, threw>>
    /\ UNCHANGED tabVars

\* the promise of deleteDevicesWithInteractiveAuth resolves: line 125 is passed
\* and line 128 awaits the deferred slot
DeleteDevicesReturn(r) ==
    /\ pc[r] = "deleting"
    /\ IF deferredSuccess[r] = "pending"
       THEN /\ pc' = [pc EXCEPT ![r] = "awaitDeferred"]
            /\ UNCHANGED <<success, signingOutDeviceIds, resolvedCalls, unmarkCount>>
       ELSE Finally(r, Truthy(deferredSuccess[r]))
    /\ UNCHANGED <<delegatedAuthAccountUrl, oidcSettled, selectedDeviceIds,
                   deviceIds, closureUrl, deferredSuccess,
                   confirmCalls, confirmResult, deleteCalls, deleteArgs,
                   oidcDialogCalls, oidcDialogArgs, oidcDialogResult,
                   markCount, markedAtRemote, logs, threw>>
    /\ UNCHANGED tabVars

\* the promise of deleteDevicesWithInteractiveAuth rejects (it has not called
\* back): the catch of lines 130-131 logs, then the finally block
DeleteDevicesThrow(r) ==
    /\ pc[r] = "deleting"
    /\ deferredSuccess[r] = "pending"
    /\ deferredSuccess' = [deferredSuccess EXCEPT ![r] = "throw"]
    /\ logs' = [logs EXCEPT ![r] = Append(@, "error")]
    /\ Finally(r, success[r])
    /\ UNCHANGED <<delegatedAuthAccountUrl, oidcSettled, selectedDeviceIds,
                   deviceIds, closureUrl,
                   confirmCalls, confirmResult, deleteCalls, deleteArgs,
                   oidcDialogCalls, oidcDialogArgs, oidcDialogResult,
                   markCount, markedAtRemote, threw>>
    /\ UNCHANGED tabVars

\* refreshDevices() resolves inside onSignoutResolvedCallback (lines 255-256):
\* the selection is cleared, the callback returns and lines 136-138 clean up
RefreshReturn(r) ==
    /\ pc[r] = "refreshing"
    /\ selectedDeviceIds' = <<>>
    /\ signingOutDeviceIds' = RemoveSigningOut(signingOutDeviceIds, deviceIds[r])
    /\ unmarkCount' = [unmarkCount EXCEPT ![r] = @ + 1]
    /\ pc' = [pc EXCEPT ![r] = "done"]
    /\ UNCHANGED <<delegatedAuthAccountUrl, oidcSettled,
                   deviceIds, closureUrl, success, deferredSuccess,
                   confirmCalls, confirmResult, deleteCalls, deleteArgs,
                   oidcDialogCalls, oidcDialogArgs, oidcDialogResult,
                   resolvedCalls, markCount, markedAtRemote, logs, threw>>
    /\ UNCHANGED tabVars

\* refreshDevices() rejects: the await of line 134 throws inside the finally
\* block, so lines 136-138 are skipped and the rejection leaves the function
RefreshThrow(r) ==
    /\ pc[r] = "refreshing"
    /\ threw' = [threw EXCEPT ![r] = TRUE]
    /\ pc' = [pc EXCEPT ![r] = "done"]
    /\ UNCHANGED <<delegatedAuthAccountUrl, oidcSettled, signingOutDeviceIds,
                   selectedDeviceIds,
                   deviceIds, closureUrl, success, deferredSuccess,
                   confirmCalls, confirmResult, deleteCalls, deleteArgs,
                   oidcDialogCalls, oidcDialogArgs, oidcDialogResult,
                   resolvedCalls, markCount, unmarkCount, markedAtRemote, logs>>
    /\ UNCHANGED tabVars

\* ---- the tab ----------------------------------------------------------------
\* the useAsyncMemo of lines 178-181 resolves, once, to the account management
\* endpoint of the OIDC client store (none without delegated auth)
ResolveDelegatedAuth(u) ==
    /\ ~oidcSettled
    /\ oidcSettled' = TRUE
    /\ delegatedAuthAccountUrl' = u
    /\ UNCHANGED <<signingOutDeviceIds, selectedDeviceIds, reqVars, obsVars>>
    /\ UNCHANGED tabVars

\* FilteredDeviceList changes the selection through setSelectedDeviceIds (line
\* 348); the effect of lines 272-274 sets it to [] when the filter changes
SetSelectedDeviceIds(ids) ==
    /\ ids # selectedDeviceIds
    /\ selectedDeviceIds' = ids
    /\ UNCHANGED <<delegatedAuthAccountUrl, oidcSettled, signingOutDeviceIds,
                   reqVars, obsVars>>
    /\ UNCHANGED tabVars

\* onSignOutCurrentDevice also marking the current device as being signed out
onSignOutCurrentDevice_Marks ==
    /\ logoutDialogCalls < MaxLogoutDialogs
    /\ logoutDialogCalls' = logoutDialogCalls + 1
    /\ signingOutDeviceIds' = AddSigningOut(signingOutDeviceIds, <<currentDeviceId>>)
    /\ UNCHANGED <<delegatedAuthAccountUrl, oidcSettled,
                   selectedDeviceIds, reqVars, obsVars, deviceVars>>

\* onSignOutCurrentDevice, lines 82-90: opens the LogoutDialog and nothing else
onSignOutCurrentDevice ==
    /\ logoutDialogCalls < MaxLogoutDialogs
    /\ logoutDialogCalls' = logoutDialogCalls + 1
    /\ UNCHANGED <<delegatedAuthAccountUrl, oidcSettled, signingOutDeviceIds,
                   selectedDeviceIds, reqVars, obsVars, deviceVars>>

\* what useOwnDevices() can return: no device while the list is loading, else a
\* list with the current device in it; the dehydrated device is not the current one
OwnDevices(devs, cur, deh) ==
    /\ devs \in DeviceLists
    /\ cur \in DeviceIds
    /\ deh \in (DeviceIds \cup {NoDevice}) \ {cur}
    /\ DOMAIN devs = {} \/ cur \in DOMAIN devs

\* lines 224-227 without the deletion of the dehydrated device
OtherDevices_KeepDehydrated(devs, cur, deh) ==
    [d \in DOMAIN devs \ {cur} |-> devs[d]]

\* otherDevices, lines 224-227: the rest of `devices` without the current
\* device, and without the dehydrated device when it is listed and verified
OtherDevices(devs, cur, deh) ==
    LET rest == [d \in DOMAIN devs \ {cur} |-> devs[d]]
        isVerified == IF deh \in DOMAIN rest THEN rest[deh] ELSE FALSE
    IN  IF deh # NoDevice /\ isVerified
        THEN [d \in DOMAIN rest \ {deh} |-> rest[d]]
        ELSE rest

\* Object.keys(otherDevices), lines 228 and 279: each key once, in list order
Keys(devs) ==
    CHOOSE s \in [1..Cardinality(DOMAIN devs) -> DOMAIN devs] : InListOrder(s)

\* otherSessionsCount, line 228
OtherSessionsCount(otherDevices) == Len(Keys(otherDevices))

\* shouldShowOtherSessions, line 229
ShouldShowOtherSessions(otherDevices) == OtherSessionsCount(otherDevices) > 0

\* disableMultipleSignout, line 182
DisableMultipleSignout(url) == Truthy(url)

\* signOutAllOtherSessions, lines 276-281: defined only when other sessions are
\* shown and multiple sign-out is not disabled; it calls onSignOutOtherDevices
\* with the keys of otherDevices
SignOutAllOtherSessions(r) ==
    LET otherDevices == OtherDevices(devices, currentDeviceId, dehydratedDeviceId)
    IN  /\ ShouldShowOtherSessions(otherDevices)
        /\ ~DisableMultipleSignout(delegatedAuthAccountUrl)
        /\ Call(r, Keys(otherDevices))

\* useOwnDevices() returns another device list (loaded, or refreshed)
DevicesLoaded(devs) ==
    /\ devs # devices
    /\ OwnDevices(devs, currentDeviceId, dehydratedDeviceId)
    /\ devices' = devs
    /\ UNCHANGED <<delegatedAuthAccountUrl, oidcSettled, signingOutDeviceIds,
                   selectedDeviceIds, reqVars, obsVars,
                   currentDeviceId, dehydratedDeviceId, logoutDialogCalls>>

Next ==
    \/ \E r \in Requests, ids \in IdLists : Call(r, ids)
    \/ \E r \in Requests, v \in DialogResults : ConfirmFinished(r, v)
    \/ \E r \in Requests, v \in DialogResults : OidcDialogFinished(r, v)
    \/ \E r \in Requests : OidcDialogThrow(r)
    \/ \E r \in Requests, b \in ApiResults : DeleteDevicesCallback(r, b)
    \/ \E r \in Requests : DeleteDevicesReturn(r)
    \/ \E r \in Requests : DeleteDevicesThrow(r)
    \/ \E r \in Requests : RefreshReturn(r)
    \/ \E r \in Requests : RefreshThrow(r)
    \/ \E u \in {Undefined, AccountUrl} : ResolveDelegatedAuth(u)
    \/ \E ids \in IdLists : SetSelectedDeviceIds(ids)
    \/ onSignOutCurrentDevice

Spec == Init /\ [][Next]_vars

TypeOK ==
    /\ delegatedAuthAccountUrl \in {Undefined, AccountUrl}
    /\ oidcSettled \in BOOLEAN
    /\ selectedDeviceIds \in IdLists
    /\ \A r \in Requests :
        /\ pc[r] \in {"idle", "confirming", "oidcDialog", "deleting",
                      "awaitDeferred", "refreshing", "done"}
        /\ deviceIds[r] \in IdLists
        /\ success[r] \in BOOLEAN

\* ---- vocabulary of the properties ------------------------------------------
InFlightSignOuts == Range(signingOutDeviceIds)

Started(r) == pc[r] # "idle"

\* between the marking step (line 114) and the end of the call
Pending(r) == pc[r] \in {"oidcDialog", "deleting", "awaitDeferred", "refreshing"}

\* the step in which a call that marked its identifiers ends
Completes(r) == pc[r] # "done" /\ pc'[r] = "done" /\ markCount[r] > 0

Disjoint(a, b) == Range(a) \cap Range(b) = {}

\* ---- C1 ----------------------------------------------------------------------
\* C1: whenever a call of onSignOutOtherDevices that added its identifiers to
\* the in-flight list ends, on whatever exit path, none of its identifiers is
\* in the in-flight list any more.
C1_RemovedOnEveryExit ==
    [][\A r \in Requests :
          Completes(r) => Disjoint(deviceIds[r], signingOutDeviceIds')]_vars

\* ---- C2 ----------------------------------------------------------------------
\* C2: no call of onSignOutOtherDevices ever ends by throwing to its caller.
C2_NeverThrows == \A r \in Requests : ~threw[r]

\* ---- C3 ----------------------------------------------------------------------
\* C3: a call that saw a delegated-auth URL and was given more than one
\* identifier is dropped: it ends at once, invokes neither backend nor the
\* confirmation dialog, never marks its identifiers and never fires the
\* resolution callback.
C3_MultiOidcDropped ==
    \A r \in Requests :
        (Started(r) /\ Truthy(closureUrl[r]) /\ Len(deviceIds[r]) > 1) =>
            /\ pc[r] = "done"
            /\ deleteCalls[r] = 0
            /\ oidcDialogCalls[r] = 0
            /\ confirmCalls[r] = 0
            /\ markCount[r] = 0
            /\ resolvedCalls[r] = 0
            /\ ~threw[r]

\* a dropped two-device request under delegated auth, next to one that is marked
C3_Witness ==
    \E r, q \in Requests :
        /\ Started(r) /\ Truthy(closureUrl[r]) /\ Len(deviceIds[r]) > 1
        /\ logs[r] = <<"warn">>
        /\ Pending(q)

\* ---- C4 ----------------------------------------------------------------------
Declined(r) == confirmResult[r] \in DialogResults /\ ~Truthy(confirmResult[r])

\* C4: when the user declines the yes/no confirmation of a call made without
\* delegated auth, the declining step leaves the in-flight list as it was and
\* ends the call, and the call has never marked an identifier, called the
\* deletion API or fired the resolution callback.
C4_DeclineChangesNothing ==
    /\ [](\A r \in Requests :
            Declined(r) =>
                /\ pc[r] = "done"
                /\ ~Truthy(closureUrl[r]) /\ Len(deviceIds[r]) > 0
                /\ markCount[r] = 0
                /\ deleteCalls[r] = 0
                /\ oidcDialogCalls[r] = 0
                /\ resolvedCalls[r] = 0)
    /\ [][\A r \in Requests :
            (pc[r] = "confirming" /\ Declined(r)') =>
                signingOutDeviceIds' = signingOutDeviceIds]_vars

\* a request declined with an undefined dialog result while another request
\* holds identifiers in flight
C4_Witness ==
    \E r, q \in Requests :
        /\ confirmResult[r] = Undefined /\ pc[r] = "done"
        /\ Pending(q) /\ Len(signingOutDeviceIds) > 0

\* ---- C5 ----------------------------------------------------------------------
\* the remote step of the call failed
Failed(r) ==
    \/ deferredSuccess[r] \in {"false", "throw"}
    \/ oidcDialogResult[r] \in {"false", Undefined, "throw"}

\* C5: a call whose remote step failed never fires the resolution callback and
\* does not throw, and the step that ends it removes its identifiers from the
\* in-flight list (its cleanup has then run exactly once).
C5_FailedCleansUp ==
    /\ [](\A r \in Requests :
            Failed(r) =>
                /\ resolvedCalls[r] = 0
                /\ pc[r] \in {"deleting", "done"}
                /\ pc[r] = "done" => (unmarkCount[r] = 1 /\ ~threw[r]))
    /\ [][\A r \in Requests :
            (Completes(r) /\ Failed(r)') =>
                Disjoint(deviceIds[r], signingOutDeviceIds')]_vars

\* a deletion that threw and a delegated dialog that threw have both ended,
\* and the in-flight list is free of their identifiers
C5_Witness ==
    \E r, q \in Requests :
        /\ pc[r] = "done" /\ pc[q] = "done"
        /\ markCount[r] = 1 /\ markCount[q] = 1
        /\ deferredSuccess[r] = "throw"
        /\ oidcDialogResult[q] = "throw"
        /\ signingOutDeviceIds = <<>>

\* ---- C6 ----------------------------------------------------------------------
\* C6: a call on the interactive path whose confirmation was accepted and
\* whose deletion reported true has, once it has ended, marked its identifiers
\* once, cleaned them up once and fired the resolution callback once.
C6_SuccessOnceEach ==
    \A r \in Requests :
        (pc[r] = "done" /\ confirmResult[r] = "true" /\ deferredSuccess[r] = "true") =>
            /\ markCount[r] = 1
            /\ unmarkCount[r] = 1
            /\ resolvedCalls[r] = 1

\* ---- C7 ----------------------------------------------------------------------
\* C7: while a call is between its marking step and its end, and no other call
\* shares an identifier with it, all its identifiers are in the in-flight
\* list, whatever the other calls start or complete meanwhile.
C7_DisjointRequestsKeepEntries ==
    \A r \in Requests :
        (Pending(r) /\ \A q \in Requests \ {r} : Disjoint(deviceIds[q], deviceIds[r])) =>
            AllInFlight(signingOutDeviceIds, deviceIds[r])

\* the first call marked its identifier when it was called and is still
\* waiting; a later call on another identifier has marked and cleaned up
C7_Witness ==
    /\ pc[1] = "oidcDialog"
    /\ pc[2] = "done" /\ markCount[2] = 1 /\ unmarkCount[2] = 1
    /\ Disjoint(deviceIds[1], deviceIds[2])
    /\ signingOutDeviceIds = deviceIds[1]

\* ---- C8 ----------------------------------------------------------------------
\* the behaviours in which every collaborator call completes and the
\* resolution callback returns: each started call keeps being resumed
Settle(r) ==
    \/ \E v \in DialogResults : ConfirmFinished(r, v)
    \/ \E v \in DialogResults : OidcDialogFinished(r, v)
    \/ OidcDialogThrow(r)
    \/ \E b \in ApiResults : DeleteDevicesCallback(r, b)
    \/ DeleteDevicesReturn(r)
    \/ DeleteDevicesThrow(r)
    \/ RefreshReturn(r)

\* onSignOutCurrentDevice is left out: it changes nothing but its own counter
NextSettling ==
    \/ \E r \in Requests, ids \in IdLists : Call(r, ids)
    \/ \E r \in Requests : Settle(r)
    \/ \E u \in {Undefined, AccountUrl} : ResolveDelegatedAuth(u)
    \/ \E ids \in IdLists : SetSelectedDeviceIds(ids)

SettlingSpec ==
    Init /\ [][NextSettling]_vars /\ \A r \in Requests : WF_vars(Settle(r))

\* C8: when every collaborator call completes and the resolution callback
\* returns, every identifier in the in-flight list is eventually out of it,
\* every call that marked identifiers eventually ends with its cleanup done,
\* and the list is empty whenever no call is pending.
C8_InFlightDrains ==
    /\ \A d \in DeviceIds : (d \in InFlightSignOuts) ~> (d \notin InFlightSignOuts)
    /\ \A r \in Requests : (markCount[r] > 0) ~> (pc[r] = "done" /\ unmarkCount[r] = 1)
    /\ []((\A r \in Requests : ~Pending(r)) => signingOutDeviceIds = <<>>)

\* two calls have marked, been cleaned up, and the list is empty again
C8_Witness ==
    /\ \A r \in Requests : pc[r] = "done" /\ markCount[r] = 1 /\ unmarkCount[r] = 1
    /\ signingOutDeviceIds = <<>>

\* ---- C9 ----------------------------------------------------------------------
\* C9: whenever a call has invoked the deletion API or opened the delegated
\* logout dialog, all its identifiers were in the in-flight list at that moment.
C9_MarkedBeforeRemote ==
    \A r \in Requests :
        (deleteCalls[r] > 0 \/ oidcDialogCalls[r] > 0) => markedAtRemote[r]

\* one call is in the deletion API and another in the delegated dialog
C9_Witness ==
    \E r, q \in Requests :
        /\ pc[r] = "deleting" /\ deleteCalls[r] = 1
        /\ pc[q] = "oidcDialog" /\ oidcDialogCalls[q] = 1

\* ---- C10 ---------------------------------------------------------------------
\* C10: the deletion API is called at most once, only by a call that saw no
\* delegated-auth URL and whose confirmation returned true, with the full
\* identifier list; the delegated dialog is opened at most once, only by a call
\* that saw a URL and has exactly one identifier, with that URL and
\* identifier; no call uses both, and a call that saw a URL never asks the
\* yes/no confirmation.
C10_BackendsGated ==
    \A r \in Requests :
        /\ deleteCalls[r] > 0 =>
              /\ deleteCalls[r] = 1
              /\ ~Truthy(closureUrl[r])
              /\ confirmCalls[r] = 1 /\ confirmResult[r] = "true"
              /\ deleteArgs[r] = deviceIds[r]
        /\ oidcDialogCalls[r] > 0 =>
              /\ oidcDialogCalls[r] = 1
              /\ Truthy(closureUrl[r])
              /\ Len(deviceIds[r]) = 1
              /\ oidcDialogArgs[r] = <<closureUrl[r], deviceIds[r][1]>>
        /\ ~(deleteCalls[r] > 0 /\ oidcDialogCalls[r] > 0)
        /\ Truthy(closureUrl[r]) => confirmCalls[r] = 0

\* a two-device deletion is under way while the delegated dialog is open for
\* a single device
C10_Witness ==
    \E r, q \in Requests :
        /\ deleteCalls[r] = 1 /\ Len(deleteArgs[r]) = 2 /\ Pending(r)
        /\ oidcDialogCalls[q] = 1 /\ pc[q] = "oidcDialog"

\* ---- C11 ---------------------------------------------------------------------
\* C11: a call's identifiers are marked only once its confirming step is
\* behind it (it is not waiting on the yes/no dialog, and if it asked, the
\* answer was true), and the step that ends a marked call, resolved or failed,
\* leaves none of its identifiers in the in-flight list.
C11_StateMachine ==
    /\ [](\A r \in Requests :
            markCount[r] > 0 =>
                /\ pc[r] # "confirming"
                /\ confirmCalls[r] > 0 => confirmResult[r] = "true")
    /\ [][\A r \in Requests :
            (Pending(r) /\ pc'[r] = "done") =>
                Disjoint(deviceIds[r], signingOutDeviceIds')]_vars

\* ---- C12 ---------------------------------------------------------------------
RemoteCalls(r) == deleteCalls[r] + oidcDialogCalls[r]

\* C12: one call of onSignOutOtherDevices invokes its backend at most once, and
\* only in the run that starts it or that follows its confirmation: no step of
\* a call that is past its marking step, or has ended, invokes a backend again.
C12_NoRetry ==
    /\ [](\A r \in Requests : RemoteCalls(r) <= 1)
    /\ [][\A r \in Requests :
            RemoteCalls(r)' # RemoteCalls(r) => pc[r] \in {"idle", "confirming"}]_vars

\* a deletion that reported false and a delegated dialog that was left
\* unconfirmed have both ended after exactly one backend call each
C12_Witness ==
    \E r, q \in Requests :
        /\ pc[r] = "done" /\ deferredSuccess[r] = "false" /\ deleteCalls[r] = 1
        /\ pc[q] = "done" /\ oidcDialogResult[q] = "false" /\ oidcDialogCalls[q] = 1

\* ---- C13 ---------------------------------------------------------------------
\* C13: a call with an empty identifier list ends at once, with or without a
\* delegated-auth URL: it opens no dialog, invokes no backend, logs nothing,
\* never fires the resolution callback, and its step leaves the in-flight list
\* and the selection as they were.
C13_EmptyIsNoOp ==
    /\ [](\A r \in Requests :
            (Started(r) /\ Len(deviceIds[r]) = 0) =>
                /\ pc[r] = "done"
                /\ confirmCalls[r] = 0 /\ oidcDialogCalls[r] = 0 /\ deleteCalls[r] = 0
                /\ markCount[r] = 0 /\ resolvedCalls[r] = 0
                /\ logs[r] = <<>> /\ ~threw[r])
    /\ [][\A r \in Requests :
            (pc[r] = "idle" /\ Started(r)' /\ Len(deviceIds'[r]) = 0) =>
                /\ signingOutDeviceIds' = signingOutDeviceIds
                /\ selectedDeviceIds' = selectedDeviceIds]_vars

\* an empty call made before the URL was known and one made with the URL,
\* while identifiers are selected
C13_Witness ==
    /\ \A r \in Requests : Started(r) /\ Len(deviceIds[r]) = 0
    /\ ~Truthy(closureUrl[1]) /\ Truthy(closureUrl[2])
    /\ Len(selectedDeviceIds) > 0

\* ---- C14 ---------------------------------------------------------------------
\* C14: a step of onSignOutCurrentDevice changes nothing of the sign-out
\* coordination: the in-flight list, the selection, every call's position and
\* every backend and callback count stay as they were, so the current device
\* is not in the in-flight list unless it already was.
C14_CurrentDeviceSignOutIsInert ==
    [][logoutDialogCalls' # logoutDialogCalls =>
          /\ signingOutDeviceIds' = signingOutDeviceIds
          /\ selectedDeviceIds' = selectedDeviceIds
          /\ UNCHANGED <<pc, deleteCalls, oidcDialogCalls, resolvedCalls, markCount>>
          /\ Includes(signingOutDeviceIds', currentDeviceId)
                 => Includes(signingOutDeviceIds, currentDeviceId)]_vars

\* the LogoutDialog was opened while another device is being signed out
C14_Witness ==
    /\ logoutDialogCalls = 1
    /\ \E r \in Requests : Pending(r)
    /\ Len(signingOutDeviceIds) > 0
    /\ ~Includes(signingOutDeviceIds, currentDeviceId)

\* ---- C15 ---------------------------------------------------------------------
\* the remote step of the call succeeded
Succeeded(r) == deferredSuccess[r] = "true" \/ oidcDialogResult[r] = "true"

\* a step of call r
StepOf(r) ==
    \/ pc'[r] # pc[r]
    \/ deferredSuccess'[r] # deferredSuccess[r]

\* C15: the only step of a call that changes the selection is the return of
\* the resolution callback of a call whose remote step succeeded, and it
\* leaves the selection empty; every other step of every call (dropped,
\* declined, failed, or a callback that rejects) leaves the selection as it was.
C15_SelectionReconciled ==
    [][\A r \in Requests :
          StepOf(r) =>
              IF pc[r] = "refreshing" /\ Succeeded(r) /\ ~threw'[r]
              THEN selectedDeviceIds' = <<>>
              ELSE selectedDeviceIds' = selectedDeviceIds]_vars

\* a failed call and a later successful call have both ended, the callback of
\* the successful one has returned, and the selection is empty
C15_Witness ==
    /\ pc[1] = "done" /\ Failed(1) /\ unmarkCount[1] = 1
    /\ pc[2] = "done" /\ Succeeded(2) /\ ~threw[2] /\ unmarkCount[2] = 1
    /\ selectedDeviceIds = <<>>

\* ---- C16 ---------------------------------------------------------------------
\* C16: the deletion API is never invoked at a moment when the tab holds a
\* delegated-auth URL, also not by a call that was made before the URL resolved.
C16_NoDeletionUnderDelegatedAuth ==
    [][\A r \in Requests :
          deleteCalls'[r] # deleteCalls[r] => ~Truthy(delegatedAuthAccountUrl)]_vars

\* ---- C17 ---------------------------------------------------------------------
\* C17: an identifier is in the in-flight list whenever some call that
\* contains it is between its marking step and its end.
C17_SharedIdentifierStaysInFlight ==
    \A d \in DeviceIds :
        (\E r \in Requests : Pending(r) /\ Includes(deviceIds[r], d)) =>
            Includes(signingOutDeviceIds, d)

\* ---- C18 ---------------------------------------------------------------------
\* C18: while a call awaits its resolution callback, its cleanup has not run
\* and all its identifiers are in the in-flight list.
C18_CallbackBeforeCleanup ==
    \A r \in Requests :
        pc[r] = "refreshing" =>
            /\ unmarkCount[r] = 0
            /\ AllInFlight(signingOutDeviceIds, deviceIds[r])

\* ---- C19 ---------------------------------------------------------------------
\* C19: on the interactive path a call is past line 128 only when the deletion
\* API has called back or thrown; after the API's normal return alone it waits,
\* with neither callback nor cleanup done; and its `success` is true exactly
\* when the completion callback was given true.
C19_AwaitsCompletionCallback ==
    \A r \in Requests :
        deleteCalls[r] > 0 =>
            /\ pc[r] \in {"refreshing", "done"} =>
                  /\ deferredSuccess[r] \in {"true", "false", "throw"}
                  /\ success[r] = (deferredSuccess[r] = "true")
            /\ pc[r] = "awaitDeferred" =>
                  /\ deferredSuccess[r] = "pending"
                  /\ unmarkCount[r] = 0 /\ resolvedCalls[r] = 0
            /\ (unmarkCount[r] > 0 \/ resolvedCalls[r] > 0) =>
                  deferredSuccess[r] # "pending"

\* the API has returned for one call, which waits for the callback, and
\* another call has been resolved by a callback given true
C19_Witness ==
    \E r, q \in Requests :
        /\ pc[r] = "awaitDeferred"
        /\ pc[q] = "done" /\ deferredSuccess[q] = "true" /\ resolvedCalls[q] = 1

\* ---- C20 ---------------------------------------------------------------------
\* the tab with any device list, where the only calls of onSignOutOtherDevices
\* are those of "sign out all other sessions"
InitTab ==
    /\ InitHooks
    /\ OwnDevices(devices, currentDeviceId, dehydratedDeviceId)

NextTab ==
    \/ \E r \in Requests : SignOutAllOtherSessions(r)
    \/ \E devs \in DeviceLists : DevicesLoaded(devs)
    \/ \E u \in {Undefined, AccountUrl} : ResolveDelegatedAuth(u)
    \/ \E r \in Requests, v \in DialogResults : ConfirmFinished(r, v)
    \/ \E r \in Requests, b \in ApiResults : DeleteDevicesCallback(r, b)
    \/ \E r \in Requests : DeleteDevicesReturn(r)
    \/ \E r \in Requests : DeleteDevicesThrow(r)
    \/ \E r \in Requests : RefreshReturn(r)
    \/ \E r \in Requests : RefreshThrow(r)

TabSpec == InitTab /\ [][NextTab]_vars

\* C20: "sign out all other sessions" issues a request only when the tab holds
\* no delegated-auth URL and some other session is listed, and the request
\* names exactly the listed devices that are neither the current device nor a
\* verified dehydrated device.
C20_SignOutAllOtherSessions ==
    [][\A r \in Requests :
          (pc[r] = "idle" /\ pc'[r] # "idle") =>
              /\ ~Truthy(delegatedAuthAccountUrl)
              /\ Len(deviceIds'[r]) >= 1
              /\ \A d \in DeviceIds :
                    Includes(deviceIds'[r], d) <=>
                        /\ d \in DOMAIN devices
                        /\ d # currentDeviceId
                        /\ ~(d = dehydratedDeviceId /\ devices[d])]_vars

\* a request of "sign out all other sessions" awaits its confirmation; the
\* list holds the current device, a verified dehydrated device and one more
\* device, and the request names that one only
C20_Witness ==
    \E r \in Requests, d \in DeviceIds :
        /\ pc[r] = "confirming"
        /\ DOMAIN devices = {currentDeviceId, dehydratedDeviceId, d}
        /\ d \notin {currentDeviceId, dehydratedDeviceId}
        /\ devices[dehydratedDeviceId]
        /\ deviceIds[r] = <<d>>
====
